---- MODULE Spec2Model ----
(***************************************************************************)
(* Training drivers of the RocketQA examples: the cross-encoder driver     *)
(* (rank/train_ce.py) and the dual-encoder driver (train_de.py).  Every    *)
(* worker of a data-parallel run executes do_train(); the model follows    *)
(* each worker statement by statement through start-up, the epoch/batch    *)
(* loop and the final checkpoint, and records the framework calls made.    *)
(***************************************************************************)
EXTENDS Integers, Sequences, FiniteSets, TLC

\* ---- bounds of the explored runs ----
MaxWorkers == 2
MaxEpochs == 2
MaxExamples == 10
MaxBatchSize == 2
MaxSaveSteps == 2
MaxLoggingSteps == 2
MaxWork == 6
BaseLR == 12

\* train_de.py logs every 10 global steps (a literal in the source)
DeLogInterval == 10

Drivers == {"ce", "de"}

VARIABLES
    args,                   \* parsed command line (argparse namespace)
    dev_count,              \* paddle.distributed.get_world_size()
    num_training_examples,  \* len(train_ds)
    ckpt_isfile,            \* os.path.isfile(args.init_from_ckpt)
    pc,                     \* per rank: position in do_train
    epoch,                  \* per rank: loop variable epoch (0 before the loop)
    step,                   \* per rank: loop variable step (batch index in the epoch)
    global_step,            \* per rank: global_step
    last_epoch,             \* per rank: lr_scheduler step counter
    opt_calls,              \* per rank: optimizer update invocations
    loaded,                 \* per rank: model.set_dict(state_dict) was executed
    trace,                  \* per rank: framework calls of the current batch
    saved,                  \* checkpoint writes so far
    printed                 \* progress log lines so far

vars == <<args, dev_count, num_training_examples, ckpt_isfile, pc, epoch, step,
          global_step, last_epoch, opt_calls, loaded, trace, saved, printed>>

conf == <<args, dev_count, num_training_examples, ckpt_isfile>>

Ranks == 0 .. (dev_count - 1)

Max(a, b) == IF a >= b THEN a ELSE b

CeilDiv(a, b) == (a + b - 1) \div b

\* ---- set-up computed once before the loop ----

\* create_dataloader: mode='train' shards the examples over the workers
\* (each worker gets ceil(N / dev_count) of them), mode='test' gives every
\* worker all examples; the last partial batch is kept.
NumBatches(driver, n, batch_size, world) ==
    IF driver = "de"
    THEN CeilDiv(CeilDiv(n, world), batch_size)
    ELSE CeilDiv(n, batch_size)

batches_per_epoch ==
    NumBatches(args.driver, num_training_examples, args.batch_size, dev_count)

\* variant: the step count is not divided by the number of workers
MaxTrainSteps_allWorkers(epochs, n, batch_size, world) ==
    (epochs * n) \div batch_size

\* max_train_steps = args.epochs * num_training_examples // args.batch_size // dev_count
MaxTrainSteps(epochs, n, batch_size, world) ==
    ((epochs * n) \div batch_size) \div world

max_train_steps ==
    MaxTrainSteps(args.epochs, num_training_examples, args.batch_size, dev_count)

\* warmup_steps = int(max_train_steps * args.warmup_proportion), proportion in percent
warmup_steps == (max_train_steps * args.warmup_pct) \div 100

\* LinearDecayWithWarmup(learning_rate, total_steps, warmup) after s schedule steps
LinearDecayWithWarmup(s, total, warmup) ==
    IF s < warmup
    THEN (BaseLR * s) \div Max(1, warmup)
    ELSE Max(0, (BaseLR * (total - s)) \div Max(1, total - warmup))

\* PolyDecayWithWarmup(learning_rate, total_steps, warmup, lr_end=0.0, power=1.0);
\* an empty decay span is taken as one step
PolyDecayWithWarmup(s, total, warmup) ==
    IF s < warmup
    THEN (BaseLR * s) \div Max(1, warmup)
    ELSE IF s > total
         THEN 0
         ELSE (BaseLR * (total - s)) \div Max(1, total - warmup)

\* lr_scheduler.get_lr()
get_lr(w) ==
    IF args.driver = "ce"
    THEN PolyDecayWithWarmup(last_epoch[w], max_train_steps, warmup_steps)
    ELSE LinearDecayWithWarmup(last_epoch[w], max_train_steps, warmup_steps)

\* ---- the recorded framework calls ----
Call(op, amp, nosync) == [op |-> op, amp |-> amp, no_sync |-> nosync]

Record(w, c) == trace' = [trace EXCEPT ![w] = Append(@, c)]

Goto(w, p) == pc' = [pc EXCEPT ![w] = p]

\* the branch `if args.use_amp:` of train_de.py; train_ce.py has no such branch
AmpBranch == args.driver = "de" /\ args.use_amp

\* ---- initial states: the command lines and environments explored ----
\* short runs on any number of workers, and the runs of exactly DeLogInterval
\* steps (the first at which train_de.py prints) on one worker or on a pair
Workload ==
    /\ dev_count \in 1 .. MaxWorkers
    /\ num_training_examples \in 0 .. MaxExamples
    /\ args.epochs \in 0 .. MaxEpochs
    /\ args.batch_size \in 1 .. MaxBatchSize
    /\ \/ dev_count * args.epochs * batches_per_epoch <= MaxWork
       \/ dev_count \in {1, 2} /\ args.epochs * batches_per_epoch = DeLogInterval

Start ==
    /\ pc = [w \in Ranks |-> "init"]
    /\ epoch = [w \in Ranks |-> 0]
    /\ step = [w \in Ranks |-> 0]
    /\ global_step = [w \in Ranks |-> 0]
    /\ last_epoch = [w \in Ranks |-> 0]
    /\ opt_calls = [w \in Ranks |-> 0]
    /\ loaded = [w \in Ranks |-> FALSE]
    /\ trace = [w \in Ranks |-> <<>>]
    /\ saved = {}
    /\ printed = {}

\* every driver, precision mode, workload and interval; --init_from_ckpt and
\* --warmup_proportion at their defaults (None and 0.0)
Init ==
    /\ args \in [driver : Drivers,
                 use_amp : BOOLEAN,
                 epochs : 0 .. MaxEpochs,
                 batch_size : 1 .. MaxBatchSize,
                 save_steps : 0 .. MaxSaveSteps,
                 logging_steps : 0 .. MaxLoggingSteps,
                 init_from_ckpt : {FALSE},
                 warmup_pct : {0}]
    /\ args.driver = "de" => args.logging_steps = 0
    /\ dev_count \in 1 .. MaxWorkers
    /\ num_training_examples \in 0 .. MaxExamples
    /\ ckpt_isfile = FALSE
    /\ Workload
    /\ Start

\* ---- start-up (train_ce.py 97-99, train_de.py 119-122) ----

\* variant: the file is loaded without the existence test, so a missing file faults
LoadCheckpoint_unchecked(w) ==
    /\ pc[w] = "init"
    /\ IF args.init_from_ckpt /\ ~ckpt_isfile
       THEN /\ Goto(w, "fault")
            /\ UNCHANGED loaded
       ELSE /\ Goto(w, "loop")
            /\ loaded' = [loaded EXCEPT ![w] = args.init_from_ckpt]
    /\ UNCHANGED <<conf, epoch, step, global_step, last_epoch, opt_calls,
                   trace, saved, printed>>

\* if args.init_from_ckpt and os.path.isfile(args.init_from_ckpt): load it;
\* otherwise the branch is skipped and start-up goes on
LoadCheckpoint(w) ==
    /\ pc[w] = "init"
    /\ loaded' = [loaded EXCEPT ![w] = args.init_from_ckpt /\ ckpt_isfile]
    /\ Goto(w, "loop")
    /\ UNCHANGED <<conf, epoch, step, global_step, last_epoch, opt_calls,
                   trace, saved, printed>>

\* ---- the loop: for epoch in range(1, epochs + 1): for step, batch in enumerate(loader, 1) ----
HasNextBatch(w) ==
    /\ args.epochs > 0
    /\ batches_per_epoch > 0
    /\ ~(epoch[w] = args.epochs /\ step[w] = batches_per_epoch)

PullBatch(w) ==
    /\ pc[w] = "loop"
    /\ HasNextBatch(w)
    /\ IF epoch[w] = 0 \/ step[w] = batches_per_epoch
       THEN /\ epoch' = [epoch EXCEPT ![w] = @ + 1]
            /\ step' = [step EXCEPT ![w] = 1]
       ELSE /\ step' = [step EXCEPT ![w] = @ + 1]
            /\ UNCHANGED epoch
    /\ trace' = [trace EXCEPT ![w] = <<>>]
    /\ Goto(w, "forward")
    /\ UNCHANGED <<conf, global_step, last_epoch, opt_calls, loaded,
                   saved, printed>>

\* model(...): under no_sync in train_de.py, under auto_cast in its AMP branch
Forward(w) ==
    /\ pc[w] = "forward"
    /\ Record(w, Call("forward", AmpBranch, args.driver = "de"))
    /\ Goto(w, IF args.driver = "de" /\ ~args.use_amp THEN "log" ELSE "backward")
    /\ UNCHANGED <<conf, epoch, step, global_step, last_epoch, opt_calls, loaded, saved, printed>>

\* ---- the gradient collective ----
\* number of the batch a worker is working on (0 before the first)
BatchNo(w) == IF epoch[w] = 0 THEN 0 ELSE (epoch[w] - 1) * batches_per_epoch + step[w]

\* positions of an iteration that come before the call holding the all-reduce:
\* loss.backward() under DataParallel in train_ce.py, fused_allreduce_gradients
\* in train_de.py
BeforeCollective ==
    IF args.driver = "ce" THEN {"forward"}
    ELSE IF args.use_amp THEN {"forward", "backward"}
    ELSE {"forward", "log", "backward"}

\* an all-reduce returns on a worker once every worker has reached it for that batch
AllReached(w) ==
    \A v \in Ranks :
        \/ BatchNo(v) > BatchNo(w)
        \/ BatchNo(v) = BatchNo(w) /\ pc[v] \notin BeforeCollective

\* variant: the plain branch of train_de.py goes from backward straight to
\* the optimizer, without the explicit all-reduce
Backward_noAllreduce(w) ==
    /\ pc[w] = "backward"
    /\ args.driver = "ce" => AllReached(w)
    /\ Record(w, Call("backward", AmpBranch, args.driver = "de"))
    /\ Goto(w, IF args.driver = "ce" \/ ~args.use_amp THEN "opt" ELSE "allreduce")
    /\ UNCHANGED <<conf, epoch, step, global_step, last_epoch, opt_calls, loaded,
                   saved, printed>>

\* loss.backward() / scaler.scale(loss).backward().  In train_ce.py the
\* DataParallel wrapper all-reduces the gradients during backward; in
\* train_de.py backward runs inside model.no_sync().
Backward(w) ==
    /\ pc[w] = "backward"
    /\ args.driver = "ce" => AllReached(w)
    /\ Record(w, Call("backward", AmpBranch, args.driver = "de"))
    /\ Goto(w, IF args.driver = "ce" THEN "opt" ELSE "allreduce")
    /\ UNCHANGED <<conf, epoch, step, global_step, last_epoch, opt_calls, loaded,
                   saved, printed>>

\* fused_allreduce_gradients(list(model.parameters()), None)
FusedAllreduceGradients(w) ==
    /\ pc[w] = "allreduce"
    /\ AllReached(w)
    /\ Record(w, Call("allreduce", FALSE, AmpBranch))
    /\ Goto(w, "opt")
    /\ UNCHANGED <<conf, epoch, step, global_step, last_epoch, opt_calls, loaded,
                   saved, printed>>

\* variant: train_ce.py prints right after the optimizer update, as the AMP
\* branch of train_de.py does
OptimizerStep_thenLog(w) ==
    /\ pc[w] = "opt"
    /\ Record(w, Call("optimizer_step", AmpBranch, AmpBranch))
    /\ opt_calls' = [opt_calls EXCEPT ![w] = @ + 1]
    /\ Goto(w, IF args.driver = "de" /\ ~args.use_amp THEN "sched" ELSE "log")
    /\ UNCHANGED <<conf, epoch, step, global_step, last_epoch, loaded,
                   saved, printed>>

\* optimizer.step() / scaler.minimize(optimizer, loss)
OptimizerStep(w) ==
    /\ pc[w] = "opt"
    /\ Record(w, Call("optimizer_step", AmpBranch, AmpBranch))
    /\ opt_calls' = [opt_calls EXCEPT ![w] = @ + 1]
    /\ Goto(w, IF AmpBranch THEN "log" ELSE "sched")
    /\ UNCHANGED <<conf, epoch, step, global_step, last_epoch, loaded,
                   saved, printed>>

\* lr_scheduler.step()
LrSchedulerStep(w) ==
    /\ pc[w] = "sched"
    /\ Record(w, Call("lr_step", FALSE, FALSE))
    /\ last_epoch' = [last_epoch EXCEPT ![w] = @ + 1]
    /\ Goto(w, "zero")
    /\ UNCHANGED <<conf, epoch, step, global_step, opt_calls, loaded,
                   saved, printed>>

\* variant: the gradients are not zeroed at the end of the iteration
ClearGrad_skipped(w) ==
    /\ pc[w] = "zero"
    /\ Goto(w, IF args.driver = "ce" THEN "log" ELSE "ckpt")
    /\ UNCHANGED <<conf, epoch, step, global_step, last_epoch, opt_calls, loaded,
                   trace, saved, printed>>

\* optimizer.clear_grad()
ClearGrad(w) ==
    /\ pc[w] = "zero"
    /\ Record(w, Call("clear_grad", FALSE, FALSE))
    /\ Goto(w, IF args.driver = "ce" THEN "log" ELSE "ckpt")
    /\ UNCHANGED <<conf, epoch, step, global_step, last_epoch, opt_calls, loaded, saved, printed>>

\* global_step += 1 and the progress print.
\* train_ce.py: if global_step % args.logging_steps == 0 and rank == 0
\* train_de.py: if global_step % 10 == 0
LogInterval == IF args.driver = "ce" THEN args.logging_steps ELSE DeLogInterval

LogGate(w) == IF args.driver = "ce" THEN w = 0 ELSE TRUE

AfterLog == IF args.driver = "ce" THEN "ckpt"
            ELSE IF args.use_amp THEN "sched" ELSE "backward"

\* variant: the step counter printed and saved is the batch index of the
\* epoch, so it starts again at 1 with every epoch
LogStep_perEpoch(w) ==
    /\ pc[w] = "log"
    /\ global_step' = [global_step EXCEPT ![w] = step[w]]
    /\ IF LogInterval = 0
       THEN /\ Goto(w, "fault")
            /\ UNCHANGED <<trace, printed>>
       ELSE /\ Goto(w, AfterLog)
            /\ IF step[w] % LogInterval = 0 /\ LogGate(w)
               THEN /\ printed' = printed \cup
                          {[rank |-> w, global_step |-> step[w],
                            lr |-> get_lr(w), last_epoch |-> last_epoch[w]]}
                    /\ Record(w, Call("log", FALSE, args.driver = "de"))
               ELSE UNCHANGED <<trace, printed>>
    /\ UNCHANGED <<conf, epoch, step, last_epoch, opt_calls, loaded, saved>>

LogStep(w) ==
    /\ pc[w] = "log"
    /\ global_step' = [global_step EXCEPT ![w] = @ + 1]
    /\ IF LogInterval = 0
       THEN /\ Goto(w, "fault")
            /\ UNCHANGED <<trace, printed>>
       ELSE /\ Goto(w, AfterLog)
            /\ IF (global_step[w] + 1) % LogInterval = 0 /\ LogGate(w)
               THEN /\ printed' = printed \cup
                          {[rank |-> w, global_step |-> global_step[w] + 1,
                            lr |-> get_lr(w), last_epoch |-> last_epoch[w]]}
                    /\ Record(w, Call("log", FALSE, args.driver = "de"))
               ELSE UNCHANGED <<trace, printed>>
    /\ UNCHANGED <<conf, epoch, step, last_epoch, opt_calls, loaded, saved>>

Checkpoint(w, kind) ==
    [rank |-> w, kind |-> kind, name |-> global_step[w],
     opt_calls |-> opt_calls[w], last_epoch |-> last_epoch[w]]

\* variant: the interval test reads the batch index of the epoch, not global_step
SaveCheckpoint_byBatchIndex(w) ==
    /\ pc[w] = "ckpt"
    /\ IF args.save_steps = 0
       THEN /\ Goto(w, "fault")
            /\ UNCHANGED <<trace, saved>>
       ELSE /\ Goto(w, "loop")
            /\ IF step[w] % args.save_steps = 0 /\ w = 0
               THEN /\ saved' = saved \cup {Checkpoint(w, "periodic")}
                    /\ Record(w, Call("save", FALSE, FALSE))
               ELSE UNCHANGED <<trace, saved>>
    /\ UNCHANGED <<conf, epoch, step, global_step, last_epoch, opt_calls, loaded,
                   printed>>

\* if global_step % args.save_steps == 0 and rank == 0: save model_<global_step>
SaveCheckpoint(w) ==
    /\ pc[w] = "ckpt"
    /\ IF args.save_steps = 0
       THEN /\ Goto(w, "fault")
            /\ UNCHANGED <<trace, saved>>
       ELSE /\ Goto(w, "loop")
            /\ IF global_step[w] % args.save_steps = 0 /\ w = 0
               THEN /\ saved' = saved \cup {Checkpoint(w, "periodic")}
                    /\ Record(w, Call("save", FALSE, FALSE))
               ELSE UNCHANGED <<trace, saved>>
    /\ UNCHANGED <<conf, epoch, step, global_step, last_epoch, opt_calls, loaded, printed>>

\* variant: the final save is left out when the last step already saved
SaveFinalCheckpoint_unlessSaved(w) ==
    /\ pc[w] = "loop"
    /\ ~HasNextBatch(w)
    /\ saved' = IF \E c \in saved : c.name = global_step[w]
                THEN saved
                ELSE saved \cup {Checkpoint(w, "final")}
    /\ Goto(w, "done")
    /\ UNCHANGED <<conf, epoch, step, global_step, last_epoch, opt_calls, loaded,
                   trace, printed>>

\* after the loops: save model_<global_step>, on every worker
SaveFinalCheckpoint(w) ==
    /\ pc[w] = "loop"
    /\ ~HasNextBatch(w)
    /\ saved' = saved \cup {Checkpoint(w, "final")}
    /\ Goto(w, "done")
    /\ UNCHANGED <<conf, epoch, step, global_step, last_epoch, opt_calls, loaded, trace, printed>>

Next ==
    \E w \in Ranks :
        \/ LoadCheckpoint(w)
        \/ PullBatch(w)
        \/ Forward(w)
        \/ Backward(w)
        \/ FusedAllreduceGradients(w)
        \/ OptimizerStep(w)
        \/ LrSchedulerStep(w)
        \/ ClearGrad(w)
        \/ LogStep(w)
        \/ SaveCheckpoint(w)
        \/ SaveFinalCheckpoint(w)

Spec == Init /\ [][Next]_vars

\* The learning-rate schedule: --warmup_proportion 0 and 0.5 over every
\* workload, without mixed precision, saving and logging at every step.
InitSchedule ==
    /\ args \in [driver : Drivers,
                 use_amp : {FALSE},
                 epochs : 0 .. MaxEpochs,
                 batch_size : 1 .. MaxBatchSize,
                 save_steps : {1},
                 logging_steps : {0, 1},
                 init_from_ckpt : {FALSE},
                 warmup_pct : {0, 50}]
    /\ args.logging_steps = 1 <=> args.driver = "ce"
    /\ ckpt_isfile = FALSE
    /\ Workload
    /\ Start

SpecSchedule == InitSchedule /\ [][Next]_vars

\* Start-up: --init_from_ckpt absent, naming a file, or naming a missing file.
InitStartup ==
    /\ args \in [driver : Drivers,
                 use_amp : {FALSE},
                 epochs : 0 .. MaxEpochs,
                 batch_size : 1 .. MaxBatchSize,
                 save_steps : 0 .. MaxSaveSteps,
                 logging_steps : {0, 1},
                 init_from_ckpt : BOOLEAN,
                 warmup_pct : {0}]
    /\ args.logging_steps = 1 <=> args.driver = "ce"
    /\ ckpt_isfile \in BOOLEAN
    /\ ~args.init_from_ckpt => ~ckpt_isfile
    /\ Workload
    /\ Start

SpecStartup == InitStartup /\ [][Next]_vars

TypeOK ==
    /\ \A w \in Ranks : pc[w] \in {"init", "loop", "forward", "backward", "allreduce",
                                   "opt", "sched", "zero", "log", "ckpt",
                                   "done", "fault"}
    /\ \A w \in Ranks : global_step[w] <= args.epochs * batches_per_epoch

\* ---- properties ----
OpsOf(t) == [i \in 1 .. Len(t) |-> t[i].op]

Project(t, S) == SelectSeq(OpsOf(t), LAMBDA o : o \in S)

IsPrefix(p, q) == Len(p) <= Len(q) /\ \A i \in 1 .. Len(p) : p[i] = q[i]

Has(t, op) == \E i \in 1 .. Len(t) : t[i].op = op

\* the iteration of the current batch has ended (the loop head was reached again)
IterationEnded(w) == pc[w] \in {"loop", "done"} /\ BatchNo(w) > 0

\* iterations rank w has run to their end
CompletedSteps(w) ==
    IF pc[w] \in {"loop", "done"} THEN BatchNo(w) ELSE Max(0, BatchNo(w) - 1)

TotalSteps == args.epochs * batches_per_epoch

CoreOrder == <<"forward", "backward", "optimizer_step", "lr_step", "clear_grad">>

CoreOps == {CoreOrder[i] : i \in 1 .. Len(CoreOrder)}

\* C1: for every batch pulled, in both drivers and both precision modes, the
\* calls forward, backward, optimizer step, schedule step and gradient zeroing
\* happen once each and in this order, and the next batch is pulled (or the
\* loop left) only when all five have happened.
C1_StepOrder ==
    \A w \in Ranks :
        /\ IsPrefix(Project(trace[w], CoreOps), CoreOrder)
        /\ IterationEnded(w) => Project(trace[w], CoreOps) = CoreOrder
        /\ pc[w] = "loop" => opt_calls[w] = BatchNo(w) /\ last_epoch[w] = BatchNo(w)

C1_Witness ==
    /\ args.driver = "de" /\ args.use_amp
    /\ \E w \in Ranks : pc[w] = "loop" /\ BatchNo(w) = 2 /\ HasNextBatch(w)

\* C2: every checkpoint write, periodic or final, is made by rank 0.
C2_LeaderOnlySaves == \A c \in saved : c.rank = 0

\* C3: once the leader has run all epochs, the final checkpoint named by its
\* final global_step has been written, and that global_step counts every batch
\* of every epoch, whether or not it is a multiple of save_steps.
C3_FinalCheckpoint ==
    pc[0] = "done" =>
        /\ global_step[0] = TotalSteps
        /\ \E c \in saved : c.rank = 0 /\ c.kind = "final" /\ c.name = global_step[0]

C3_Witness ==
    /\ pc[0] = "done"
    /\ args.save_steps = 2
    /\ global_step[0] = 3

\* C4: with a positive save interval, the periodic checkpoints written by the
\* leader are exactly model_g for the completed steps g that are multiples of
\* save_steps.
C4_PeriodicCheckpoints ==
    args.save_steps > 0 =>
        {c.name : c \in {d \in saved : d.kind = "periodic"}}
            = {g \in 1 .. CompletedSteps(0) : g % args.save_steps = 0}

C4_Witness ==
    /\ args.save_steps = 2
    /\ pc[0] = "loop"
    /\ BatchNo(0) = 5
    /\ epoch[0] = 2

\* C5: in train_de.py, in both branches, backward runs under no_sync, exactly
\* one fused all-reduce follows it and precedes the optimizer update, and when
\* a worker's optimizer update has run every worker has computed its gradients
\* of that batch.
C5_ExchangeBeforeUpdate ==
    args.driver = "de" =>
        \A w \in Ranks :
            /\ IsPrefix(Project(trace[w], {"backward", "allreduce", "optimizer_step"}),
                        <<"backward", "allreduce", "optimizer_step">>)
            /\ IterationEnded(w) =>
                   Project(trace[w], {"backward", "allreduce", "optimizer_step"})
                       = <<"backward", "allreduce", "optimizer_step">>
            /\ \A i \in 1 .. Len(trace[w]) :
                   trace[w][i].op = "backward" => trace[w][i].no_sync
            /\ Has(trace[w], "optimizer_step") =>
                   \A v \in Ranks :
                       \/ BatchNo(v) > BatchNo(w)
                       \/ BatchNo(v) = BatchNo(w) /\ Has(trace[v], "backward")

C5_Witness ==
    /\ args.driver = "de" /\ ~args.use_amp
    /\ dev_count = 2
    /\ Has(trace[0], "optimizer_step")
    /\ pc[1] = "allreduce"

\* C6: with use_amp set, in both drivers, every backward pass is the scaled
\* one and every optimizer update goes through the scaler.
C6_AmpThroughScaler ==
    args.use_amp =>
        \A w \in Ranks : \A i \in 1 .. Len(trace[w]) :
            trace[w][i].op \in {"backward", "optimizer_step"} => trace[w][i].amp

\* C7: every progress log line is printed by rank 0.
C7_LeaderOnlyLogs == \A l \in printed : l.rank = 0

\* the calls of the current batch made before its i-th call
Earlier(w, i) == {trace[w][j].op : j \in 1 .. (i - 1)}

LogBeforeSave(w) ==
    \A i, j \in 1 .. Len(trace[w]) :
        trace[w][i].op = "log" /\ trace[w][j].op = "save" => i < j

\* C8 as stated: in both drivers a log line for step g comes after the
\* optimizer step, the schedule step and the gradient zeroing of step g, reports
\* the rate after g schedule steps, and precedes the checkpoint of step g.
C8_LogAfterUpdate ==
    /\ \A w \in Ranks : \A i \in 1 .. Len(trace[w]) :
           trace[w][i].op = "log" =>
               {"optimizer_step", "lr_step", "clear_grad"} \subseteq Earlier(w, i)
    /\ \A l \in printed : l.last_epoch = l.global_step
    /\ \A w \in Ranks : LogBeforeSave(w)

\* C8 amended: that holds in train_ce.py; in train_de.py the log line of step
\* g comes after the forward pass and before the schedule step and the
\* gradient zeroing of step g (after the optimizer update in the AMP branch,
\* before the backward pass in the plain branch) and reports the rate after
\* g - 1 schedule steps; in both drivers the log precedes the checkpoint.
C8_LogPosition ==
    /\ \A w \in Ranks : \A i \in 1 .. Len(trace[w]) :
           trace[w][i].op = "log" =>
               IF args.driver = "ce"
               THEN {"optimizer_step", "lr_step", "clear_grad"} \subseteq Earlier(w, i)
               ELSE /\ "forward" \in Earlier(w, i)
                    /\ Earlier(w, i) \cap {"lr_step", "clear_grad"} = {}
                    /\ args.use_amp => "optimizer_step" \in Earlier(w, i)
                    /\ ~args.use_amp => "backward" \notin Earlier(w, i)
    /\ \A l \in printed :
           l.last_epoch = (IF args.driver = "ce" THEN l.global_step ELSE l.global_step - 1)
    /\ \A w \in Ranks : LogBeforeSave(w)

C8_Witness ==
    /\ args.driver = "de"
    /\ \E w \in Ranks : Has(trace[w], "log") /\ Has(trace[w], "save")

\* C9: the planned step count max_train_steps never exceeds the steps the loop
\* runs, the learning rate does not increase once warm-up is over, and it is 0
\* when the last step of the last epoch has run.
C9_Plan ==
    \A w \in Ranks :
        /\ max_train_steps <= TotalSteps
        /\ pc[w] = "done" => max_train_steps <= global_step[w] /\ get_lr(w) = 0

MissingCkpt == args.init_from_ckpt /\ ~ckpt_isfile

\* C10 as stated: with a missing checkpoint file no training step is run and
\* no checkpoint is written.
C10_MissingCkptFaults ==
    MissingCkpt => saved = {} /\ \A w \in Ranks : BatchNo(w) = 0

\* C10 amended: with a missing checkpoint file start-up skips the load without
\* a fault: nothing is loaded, no worker faults before its first batch, and a
\* worker that completes has run every step and written its final checkpoint.
C10_MissingCkptSkipped ==
    MissingCkpt =>
        \A w \in Ranks :
            /\ ~loaded[w]
            /\ pc[w] = "fault" => BatchNo(w) >= 1
            /\ pc[w] = "done" =>
                   /\ global_step[w] = TotalSteps
                   /\ \E c \in saved : c.rank = w /\ c.name = global_step[w]

C10_Witness ==
    /\ MissingCkpt
    /\ pc[0] = "done"
    /\ global_step[0] = 4
    /\ \E c \in saved : c.kind = "periodic"

\* C11: every checkpoint model_g, periodic or final, is written when exactly g
\* optimizer updates and g schedule steps have been made; global_step is not
\* reset between epochs and counts the batches pulled, one per batch.
C11_CheckpointCounters ==
    /\ \A c \in saved : c.opt_calls = c.name /\ c.last_epoch = c.name
    /\ \A w \in Ranks :
           /\ global_step[w] \in {BatchNo(w) - 1, BatchNo(w)}
           /\ pc[w] \in {"ckpt", "loop", "done"} => global_step[w] = BatchNo(w)

C11_Witness ==
    /\ args.driver = "de" /\ ~args.use_amp
    /\ \E c \in saved : c.kind = "periodic" /\ c.name > batches_per_epoch
    /\ \E c \in saved : c.kind = "final" /\ c.name = TotalSteps

====
